---- MODULE Spec2Model ----
(***************************************************************************)
(* Model of app.py: a Flask service with a fixed yes/no triage tree        *)
(* (questions / diagnoses), the guided-quiz endpoint /api/answer and the   *)
(* AI-assisted entry point /api/symptom_check, which asks an external      *)
(* text-generation service for a category label.                           *)
(***************************************************************************)
EXTENDS Integers, Sequences, FiniteSets, TLC

VARIABLES
    GEMINI_API_KEY,  \* value of os.getenv("GEMINI_API_KEY")
    proc,            \* "boot" (module not yet imported), "running", "failed"
    questions,       \* the module-level dict questions
    diagnoses,       \* the module-level dict diagnoses
    calls,           \* symptom_check requests blocked in requests.post
    last,            \* the request completed most recently, with its response
    walk             \* one guided-quiz client: the node ids it has been given

vars == <<GEMINI_API_KEY, proc, questions, diagnoses, calls, last, walk>>

(***************************************************************************)
(* Bounds.                                                                 *)
(***************************************************************************)
MaxInFlight == 1     \* symptom_check requests waiting for the service at once
MaxPad == 1          \* whitespace characters around the text the service answers
MaxHops == 9         \* answers one guided-quiz client gives before it stops

(***************************************************************************)
(* Python values.                                                          *)
(***************************************************************************)
\* Python's None, as dict.get returns it for a missing key of the request.
None == "<None>"

\* only a missing value counts as false, an empty string does not
FalsyNoneOnly(v) == v = None

\* not v, for v a str or None
Falsy(v) == v \in {None, ""}

\* str.startswith
startswith(s, prefix) ==
    /\ Len(s) >= Len(prefix)
    /\ SubSeq(s, 1, Len(prefix)) = prefix

\* the characters str.strip() removes
Whitespace == {" ", "\t", "\n", "\r"}

RECURSIVE lstrip(_)
lstrip(s) ==
    IF Len(s) > 0 /\ SubSeq(s, 1, 1) \in Whitespace
    THEN lstrip(SubSeq(s, 2, Len(s)))
    ELSE s

RECURSIVE rstrip(_)
rstrip(s) ==
    IF Len(s) > 0 /\ SubSeq(s, Len(s), Len(s)) \in Whitespace
    THEN rstrip(SubSeq(s, 1, Len(s) - 1))
    ELSE s

\* str.strip()
strip(s) == rstrip(lstrip(s))

(***************************************************************************)
(* The decision tree.                                                      *)
(***************************************************************************)
ROOT_ID == "start"

\* the dict display of lines 16-57
QuestionsLiteral ==
    [ start |-> [question |-> "Are they conscious and responsive?",
                 yes |-> "q1_a", no |-> "q1_b"],
      q1_a  |-> [question |-> "Are they breathing?",
                 yes |-> "q2_a", no |-> "diag_unconscious_not_breathing"],
      q1_b  |-> [question |-> "Do they have a pulse?",
                 yes |-> "diag_unconscious_breathing",
                 no |-> "diag_unconscious_no_pulse"],
      q2_a  |-> [question |-> "Is there any severe bleeding?",
                 yes |-> "diag_bleeding", no |-> "q3_a"],
      q3_a  |-> [question |-> "Are they clutching their chest or experiencing severe chest pain?",
                 yes |-> "diag_heart_attack", no |-> "q4_a"],
      q4_a  |-> [question |-> "Are they exhibiting facial drooping, arm weakness, or slurred speech?",
                 yes |-> "diag_stroke", no |-> "q5_a"],
      q5_a  |-> [question |-> "Are they experiencing a sudden, uncontrollable shaking of their body?",
                 yes |-> "diag_seizure", no |-> "q6_a"],
      q6_a  |-> [question |-> "Do they have a known history of severe allergies or are they having trouble breathing with swelling?",
                 yes |-> "diag_allergic_reaction", no |-> "diag_general_ok"] ]

\* the dict display of lines 60-70
DiagnosesLiteral ==
    [ diag_unconscious_not_breathing |-> "Possible Cardiac Arrest. Start CPR immediately and call for an AED. You should have already called for emergency services.",
      diag_unconscious_breathing |-> "Possible Unconscious but Breathing. Place them in the recovery position and monitor their breathing. You should have already called for emergency services.",
      diag_unconscious_no_pulse |-> "Possible Cardiac Arrest. Start CPR immediately. You should have already called for emergency services.",
      diag_bleeding |-> "Possible Severe Bleeding. Apply direct pressure to the wound with a clean cloth. Elevate the injured area if possible. You should have already called for emergency services.",
      diag_heart_attack |-> "Possible Heart Attack. Keep the person calm and seated. Loosen any tight clothing. You should have already called for emergency services.",
      diag_stroke |-> "Possible Stroke. Remember the FAST acronym (Face, Arm, Speech, Time). Do not give them anything to eat or drink. You should have already called for emergency services.",
      diag_seizure |-> "Possible Seizure. Protect the person from injury by moving objects away. Do not restrain them. You should have already called for emergency services.",
      diag_allergic_reaction |-> "Possible Anaphylactic Shock. If they have an epinephrine auto-injector, assist them in using it. You should have already called for emergency services.",
      diag_general_ok |-> "The person may be fine or have a less critical condition. However, if symptoms persist or worsen, please seek professional medical help immediately." ]

\* q6_a's 'no' names a key that is in neither dict
QuestionsTableDangling ==
    [QuestionsLiteral EXCEPT !.q6_a.no = "diag_general"]

\* q6_a's 'no' leads back to the root
QuestionsTableCycle ==
    [QuestionsLiteral EXCEPT !.q6_a.no = "start"]

\* the last question was given an id that starts like a diagnosis id
QuestionsTableLeafPrefixedQuestion ==
    [k \in (DOMAIN QuestionsLiteral \ {"q6_a"}) \cup {"diag_q6"} |->
        IF k = "diag_q6" THEN QuestionsLiteral.q6_a
        ELSE IF k = "q5_a" THEN [QuestionsLiteral.q5_a EXCEPT !.no = "diag_q6"]
        ELSE QuestionsLiteral[k]]

\* what the name questions is bound to once the module is imported
QuestionsTable == QuestionsLiteral

\* a diagnosis was added that no question leads to
DiagnosesTableIsland ==
    [k \in DOMAIN DiagnosesLiteral \cup {"diag_choking"} |->
        IF k \in DOMAIN DiagnosesLiteral THEN DiagnosesLiteral[k]
        ELSE "Possible Choking. Give back blows and abdominal thrusts."]

\* the text of the last leaf was left empty
DiagnosesTableEmptyText ==
    [DiagnosesLiteral EXCEPT !.diag_general_ok = ""]

\* what the name diagnoses is bound to once the module is imported
DiagnosesTable == DiagnosesLiteral


(***************************************************************************)
(* Results of a Python expression: a value, or a raised exception.         *)
(***************************************************************************)
Ok(v) == [exc |-> None, val |-> v]
Raise(e) == [exc |-> e, val |-> None]
Raised(r) == r.exc # None

\* d[k] on a dict
DictGet(d, k) == IF k \in DOMAIN d THEN Ok(d[k]) ELSE Raise("KeyError")

(***************************************************************************)
(* Responses of the two endpoints.                                         *)
(***************************************************************************)
QuestionResp(id, text) ==
    [http |-> 200, status |-> "question", next_q_id |-> id, question |-> text,
     diagnosis |-> None, message |-> None, exc |-> None]

DiagnosisResp(text) ==
    [http |-> 200, status |-> "diagnosis", next_q_id |-> None, question |-> None,
     diagnosis |-> text, message |-> None, exc |-> None]

ErrorResp(msg) ==
    [http |-> 200, status |-> "error", next_q_id |-> None, question |-> None,
     diagnosis |-> None, message |-> msg, exc |-> None]

\* an exception that leaves a view function: Flask answers 500 and goes on
ServerError(e) ==
    [http |-> 500, status |-> None, next_q_id |-> None, question |-> None,
     diagnosis |-> None, message |-> None, exc |-> e]

NoResp ==
    [http |-> 0, status |-> None, next_q_id |-> None, question |-> None,
     diagnosis |-> None, message |-> None, exc |-> None]

(***************************************************************************)
(* /api/answer                                                             *)
(***************************************************************************)
\* the reset is decided by the current node id instead of the answer
NextQIdResetOnNode(current_q_id, answer) ==
    IF current_q_id = "initial"
    THEN Ok("start")
    ELSE LET node == DictGet(questions, current_q_id)
         IN  IF Raised(node) THEN node ELSE DictGet(node.val, answer)

\* the answer is not looked at: the 'yes' transition is always taken
NextQIdAlwaysYes(current_q_id, answer) ==
    IF answer = "initial"
    THEN Ok("start")
    ELSE LET node == DictGet(questions, current_q_id)
         IN  IF Raised(node) THEN node ELSE DictGet(node.val, "yes")

\* an answer that is no key of the node is taken as 'no'
NextQIdDefaultsToNo(current_q_id, answer) ==
    IF answer = "initial"
    THEN Ok("start")
    ELSE LET node == DictGet(questions, current_q_id)
         IN  IF Raised(node) THEN node
             ELSE IF answer \in DOMAIN node.val THEN Ok(node.val[answer])
             ELSE DictGet(node.val, "no")

\* a current node id that is no key of questions is taken as the root
NextQIdUnknownNodeIsRoot(current_q_id, answer) ==
    IF answer = "initial"
    THEN Ok("start")
    ELSE LET node == IF current_q_id \in DOMAIN questions
                     THEN Ok(questions[current_q_id])
                     ELSE Ok(questions["start"])
         IN  DictGet(node.val, answer)

\* the server goes on from the node of its previous answer instead of the
\* node the caller names
NextQIdFromSession(current_q_id, answer) ==
    IF answer = "initial"
    THEN Ok("start")
    ELSE LET held == IF last.op = "answer" /\ last.resp.status = "question"
                     THEN last.resp.next_q_id
                     ELSE current_q_id
             node == DictGet(questions, held)
         IN  IF Raised(node) THEN node ELSE DictGet(node.val, answer)

\* the current node is looked up before the answer is tested for the
\* sentinel
NextQIdLooksUpNodeFirst(current_q_id, answer) ==
    LET node == DictGet(questions, current_q_id)
    IN  IF Raised(node) THEN node
        ELSE IF answer = "initial" THEN Ok("start")
        ELSE DictGet(node.val, answer)

\* next_q_id as lines 168-173 compute it
NextQId(current_q_id, answer) ==
    IF answer = "initial"
    THEN Ok("start")
    ELSE LET node == DictGet(questions, current_q_id)
         IN  IF Raised(node) THEN node ELSE DictGet(node.val, answer)

\* the response built from next_q_id, lines 175-188
AnswerResponse(next_q_id) ==
    IF startswith(next_q_id, "diag_")
    THEN LET text == DictGet(diagnoses, next_q_id)
         IN  IF Raised(text) THEN ServerError(text.exc)
             ELSE DiagnosisResp(text.val)
    ELSE LET next_question == DictGet(questions, next_q_id)
         IN  IF Raised(next_question) THEN ServerError(next_question.exc)
             ELSE QuestionResp(next_q_id, next_question.val.question)

\* the view function answer(): its local next_q_id and its response
answer(current_q_id, ans) ==
    LET n == NextQId(current_q_id, ans)
    IN  IF Raised(n)
        THEN [next_q_id |-> None, resp |-> ServerError(n.exc)]
        ELSE [next_q_id |-> n.val, resp |-> AnswerResponse(n.val)]


(***************************************************************************)
(* The external service: what one requests.post can come to.               *)
(***************************************************************************)
\* JSON values as response.json() yields them
JObj(f) == [t |-> "dict", v |-> f]
JArr(s) == [t |-> "list", v |-> s]
JStr(s) == [t |-> "str", v |-> s]
JNull == [t |-> "NoneType", v |-> None]

\* x[k] for a string key k, on the result x of an earlier subscript
GetKey(x, k) ==
    IF Raised(x) THEN x
    ELSE IF x.val.t = "dict" THEN DictGet(x.val.v, k)
    ELSE Raise("TypeError")

\* x[0]
GetFirst(x) ==
    IF Raised(x) THEN x
    ELSE IF x.val.t = "list"
         THEN IF Len(x.val.v) > 0 THEN Ok(x.val.v[1]) ELSE Raise("IndexError")
    ELSE IF x.val.t = "str"
         THEN IF Len(x.val.v) > 0 THEN Ok(JStr(SubSeq(x.val.v, 1, 1)))
              ELSE Raise("IndexError")
    ELSE IF x.val.t = "dict" THEN Raise("KeyError")
    ELSE Raise("TypeError")

\* x.strip()
CallStrip(x) ==
    IF Raised(x) THEN x
    ELSE IF x.val.t = "str" THEN Ok(strip(x.val.v))
    ELSE Raise("AttributeError")

\* the parts list of a well-formed answer
Parts(text) == JArr(<<JObj([text |-> JStr(text)])>>)
Candidate(parts) == JObj([content |-> JObj([parts |-> parts])])

\* the body shapes the service is made to send
BadShapes ==
    {"not_json", "top_list", "no_candidates", "candidates_null",
     "empty_candidates", "no_content", "no_parts", "empty_parts",
     "no_text", "text_null"}
Shapes == BadShapes \cup {"good"}

\* response.json() on a body of the given shape carrying the given text
ResponseJson(shape, text) ==
    CASE shape = "not_json" -> Raise("JSONDecodeError")
      [] shape = "top_list" -> Ok(JArr(<<JStr(text)>>))
      [] shape = "no_candidates" ->
            Ok(JObj([error |-> JObj([message |-> JStr(text)])]))
      [] shape = "candidates_null" -> Ok(JObj([candidates |-> JNull]))
      [] shape = "empty_candidates" -> Ok(JObj([candidates |-> JArr(<<>>)]))
      [] shape = "no_content" ->
            Ok(JObj([candidates |-> JArr(<<JObj([finishReason |-> JStr("SAFETY")])>>)]))
      [] shape = "no_parts" ->
            Ok(JObj([candidates |-> JArr(<<JObj([content |-> JObj([role |-> JStr("model")])])>>)]))
      [] shape = "empty_parts" ->
            Ok(JObj([candidates |-> JArr(<<Candidate(JArr(<<>>))>>)]))
      [] shape = "no_text" ->
            Ok(JObj([candidates |-> JArr(<<Candidate(JArr(<<JObj([inlineData |-> JStr(text)])>>))>>)]))
      [] shape = "text_null" ->
            Ok(JObj([candidates |-> JArr(<<Candidate(JArr(<<JObj([text |-> JNull])>>))>>)]))
      [] shape = "good" ->
            Ok(JObj([candidates |-> JArr(<<Candidate(Parts(text))>>)]))

\* response.raise_for_status()
raise_for_status(status) ==
    IF status >= 400 /\ status < 600 THEN Raise("HTTPError") ELSE Ok(None)

(***************************************************************************)
(* call_ai_for_symptom_check                                               *)
(***************************************************************************)
\* Cardiac Arrest is bound to the other cardiac-arrest leaf
diagnosis_categoriesOtherLeaf ==
    ("Cardiac Arrest" :> "diag_unconscious_no_pulse") @@
    ("Breathing Emergency" :> "diag_unconscious_breathing") @@
    ("Severe Bleeding" :> "diag_bleeding") @@
    ("Heart Attack" :> "diag_heart_attack") @@
    ("Stroke" :> "diag_stroke") @@
    ("Seizure" :> "diag_seizure") @@
    ("Allergic Reaction" :> "diag_allergic_reaction")

\* the dict display of lines 79-87
diagnosis_categories ==
    ("Cardiac Arrest" :> "diag_unconscious_not_breathing") @@
    ("Breathing Emergency" :> "diag_unconscious_breathing") @@
    ("Severe Bleeding" :> "diag_bleeding") @@
    ("Heart Attack" :> "diag_heart_attack") @@
    ("Stroke" :> "diag_stroke") @@
    ("Seizure" :> "diag_seizure") @@
    ("Allergic Reaction" :> "diag_allergic_reaction")

\* the chain with the Heart Attack branch left out
EntryChainNoHeartAttack ==
    << <<"Cardiac Arrest", "q1_a">>,
       <<"Breathing Emergency", "q1_b">>,
       <<"Severe Bleeding", "q2_a">>,
       <<"Stroke", "q4_a">>,
       <<"Seizure", "q5_a">>,
       <<"Allergic Reaction", "q6_a">> >>

\* the Allergic Reaction branch returns an id that is no key of questions
EntryChainUnknownId ==
    << <<"Cardiac Arrest", "q1_a">>,
       <<"Breathing Emergency", "q1_b">>,
       <<"Severe Bleeding", "q2_a">>,
       <<"Heart Attack", "q3_a">>,
       <<"Stroke", "q4_a">>,
       <<"Seizure", "q5_a">>,
       <<"Allergic Reaction", "q7_a">> >>

\* the if/elif chain of lines 109-122, in order
EntryChain ==
    << <<"Cardiac Arrest", "q1_a">>,
       <<"Breathing Emergency", "q1_b">>,
       <<"Severe Bleeding", "q2_a">>,
       <<"Heart Attack", "q3_a">>,
       <<"Stroke", "q4_a">>,
       <<"Seizure", "q5_a">>,
       <<"Allergic Reaction", "q6_a">> >>

\* the first branch of the chain from position i on that ai_match satisfies;
\* falling off its end reaches the default return of line 124
RECURSIVE ChainFrom(_, _)
ChainFrom(ai_match, i) ==
    IF i > Len(EntryChain) THEN "start"
    ELSE IF ai_match = EntryChain[i][1] THEN EntryChain[i][2]
    ELSE ChainFrom(ai_match, i + 1)

\* the lookup ignores letter case of the first word
MatchEntryAnyText(ai_match) ==
    IF ai_match \in DOMAIN diagnosis_categories \/ ai_match = "heart attack"
    THEN IF ai_match = "heart attack" THEN "q3_a" ELSE ChainFrom(ai_match, 1)
    ELSE "start"

\* lines 107-124
MatchEntry(ai_match) ==
    IF ai_match \in DOMAIN diagnosis_categories
    THEN ChainFrom(ai_match, 1)
    ELSE "start"

\* lines 102-105: ai_match, or the exception raised on the way to it
AiMatch(status, shape, text) ==
    LET checked == raise_for_status(status)
        result == IF Raised(checked) THEN checked ELSE ResponseJson(shape, text)
    IN  CallStrip(GetKey(GetFirst(GetKey(GetKey(GetFirst(GetKey(result,
            "candidates")), "content"), "parts")), "text"))

\* an outcome of requests.post: no connection, or a response
ConnectionFailed == [net |-> "error", status |-> 0, shape |-> None, text |-> None]
HttpResponse(status, shape, text) ==
    [net |-> "ok", status |-> status, shape |-> shape, text |-> text]
NoOutcome == [net |-> None, status |-> 0, shape |-> None, text |-> None]

\* only a KeyError is caught
TryBodyKeyErrorOnly(o) ==
    IF o.net = "error" THEN Raise("ConnectionError")
    ELSE LET m == AiMatch(o.status, o.shape, o.text)
         IN  IF Raised(m)
             THEN IF m.exc = "KeyError" THEN Ok("start") ELSE m
             ELSE Ok(MatchEntry(m.val))

\* the try statement of lines 100-127: except Exception catches whatever
\* the body raises and returns "start"
TryBody(o) ==
    IF o.net = "error" THEN Ok("start")
    ELSE LET m == AiMatch(o.status, o.shape, o.text)
         IN  IF Raised(m) THEN Ok("start") ELSE Ok(MatchEntry(m.val))

\* a failed call is sent again
RetriesAfterFailure(o) == o.net = "error" \/ o.status >= 500

\* whether call_ai_for_symptom_check goes back to requests.post after
\* outcome o: both returns, lines 124 and 127, end the function
Retries(o) == FALSE

\* call_ai_for_symptom_check, given what requests.post came to
call_ai_for_symptom_check(o) == TryBody(o)

\* symptom_check from line 147 on, given what requests.post came to
symptom_check_after_call(o) ==
    LET r == call_ai_for_symptom_check(o)
    IN  IF Raised(r)
        THEN [next_q_id |-> None, resp |-> ServerError(r.exc)]
        ELSE LET first_question ==
                     IF r.val \in DOMAIN questions THEN questions[r.val]
                     ELSE questions["start"]
             IN  [next_q_id |-> r.val,
                  resp |-> QuestionResp(r.val, first_question.question)]

(***************************************************************************)
(* Inputs: what callers send and what the service answers.                 *)
(***************************************************************************)
QuestionIds ==
    {"start", "q1_a", "q1_b", "q2_a", "q3_a", "q4_a", "q5_a", "q6_a"}

\* values of the request field current_q_id (None: the field is missing)
NodeInputs == QuestionIds \cup {"diag_bleeding", "initial", "q9_z", None}

\* values of the request field answer
AnswerInputs == {"yes", "no", "initial", "question", "maybe", None}

\* values of the request field symptoms
SymptomInputs == {None, "", "severe chest pain, clutching chest"}

\* values of the environment variable (None: not set)
KeyInputs == {None, "", "test-key"}

Labels ==
    {"Cardiac Arrest", "Breathing Emergency", "Severe Bleeding",
     "Heart Attack", "Stroke", "Seizure", "Allergic Reaction"}

\* answers of the service that are no label
OtherTexts ==
    {"No Match", "", "heart attack", "Heart Attack now", "Possible Stroke"}

RECURSIVE LeftPad(_)
LeftPad(n) == IF n = 0 THEN "" ELSE (IF n % 2 = 1 THEN " " ELSE "\t") \o LeftPad(n - 1)

RECURSIVE RightPad(_)
RightPad(n) == IF n = 0 THEN "" ELSE RightPad(n - 1) \o (IF n % 2 = 1 THEN "\n" ELSE " ")

\* how many whitespace characters precede and follow the text
Pads == { p \in (0..MaxPad) \X (0..MaxPad) : p[1] + p[2] <= MaxPad }

\* the texts the service is made to answer with
Texts ==
    { LeftPad(p[1]) \o c \o RightPad(p[2]) :
          p \in Pads, c \in Labels \cup OtherTexts }

ErrorStatuses == {403, 429, 500}

Outcomes ==
    {ConnectionFailed}
    \cup { HttpResponse(st, "good", "Heart Attack") : st \in ErrorStatuses }
    \cup { HttpResponse(200, sh, "Heart Attack") : sh \in BadShapes }
    \cup { HttpResponse(200, "good", t) : t \in Texts }

(***************************************************************************)
(* The state machine.                                                      *)
(***************************************************************************)
Slots == 1..MaxInFlight

FreeSlot == [pc |-> "free", symptoms |-> None, posts |-> 0]

NoRequest ==
    [op |-> None, current_q_id |-> None, answer |-> None, symptoms |-> None,
     outcome |-> NoOutcome, posts |-> 0, next_q_id |-> None, resp |-> NoResp]

NoWalk == [path |-> <<>>, answers |-> <<>>, status |-> None]

Init ==
    /\ GEMINI_API_KEY \in KeyInputs
    /\ proc = "boot"
    /\ questions = <<>>
    /\ diagnoses = <<>>
    /\ calls = [i \in Slots |-> FreeSlot]
    /\ last = NoRequest
    /\ walk = NoWalk

\* lines 9-70: the module is imported
Startup ==
    /\ proc = "boot"
    /\ IF Falsy(GEMINI_API_KEY)
       THEN /\ proc' = "failed"
            /\ UNCHANGED <<questions, diagnoses>>
       ELSE /\ proc' = "running"
            /\ questions' = QuestionsTable
            /\ diagnoses' = DiagnosesTable
    /\ UNCHANGED <<GEMINI_API_KEY, calls, last, walk>>

AnswerRecord(current_q_id, ans) ==
    LET r == answer(current_q_id, ans)
    IN  [op |-> "answer", current_q_id |-> current_q_id, answer |-> ans,
         symptoms |-> None, outcome |-> NoOutcome, posts |-> 0,
         next_q_id |-> r.next_q_id, resp |-> r.resp]

\* POST /api/answer from any caller
Answer(current_q_id, ans) ==
    /\ proc = "running"
    /\ last' = AnswerRecord(current_q_id, ans)
    /\ UNCHANGED <<GEMINI_API_KEY, proc, questions, diagnoses, calls, walk>>

\* what the guided-quiz client holds after the response to the answers it
\* gave: the ids the handler moved it to, and the status it was told
Walked(path, answers, rec) ==
    IF rec.resp.status \in {"question", "diagnosis"}
    THEN [path |-> Append(path, rec.next_q_id), answers |-> answers,
          status |-> rec.resp.status]
    ELSE [path |-> path, answers |-> answers, status |-> "failed"]

\* the guided-quiz client opens the quiz with the sentinel
WalkStart ==
    /\ proc = "running"
    /\ last' = AnswerRecord("initial", "initial")
    /\ walk' = Walked(<<>>, <<>>, last')
    /\ UNCHANGED <<GEMINI_API_KEY, proc, questions, diagnoses, calls>>

\* the guided-quiz client answers the question it was given last
WalkStep(ans) ==
    /\ proc = "running"
    /\ walk.status = "question"
    /\ Len(walk.path) <= MaxHops
    /\ last' = AnswerRecord(walk.path[Len(walk.path)], ans)
    /\ walk' = Walked(walk.path, Append(walk.answers, ans), last')
    /\ UNCHANGED <<GEMINI_API_KEY, proc, questions, diagnoses, calls>>

\* POST /api/symptom_check, lines 140-144: nothing to classify
SymptomReject(symptoms) ==
    /\ proc = "running"
    /\ Falsy(symptoms)
    /\ last' = [op |-> "symptom_check", current_q_id |-> None, answer |-> None,
                symptoms |-> symptoms, outcome |-> NoOutcome, posts |-> 0,
                next_q_id |-> None, resp |-> ErrorResp("No symptoms provided.")]
    /\ UNCHANGED <<GEMINI_API_KEY, proc, questions, diagnoses, calls, walk>>

\* POST /api/symptom_check, lines 140-101: the request enters requests.post
SymptomCall(i, symptoms) ==
    /\ proc = "running"
    /\ ~Falsy(symptoms)
    /\ calls[i].pc = "free"
    /\ calls' = [calls EXCEPT ![i] = [pc |-> "waiting", symptoms |-> symptoms,
                                      posts |-> 1]]
    /\ UNCHANGED <<GEMINI_API_KEY, proc, questions, diagnoses, last, walk>>

\* the service keeps the connection of call i and will never answer it
ExternalSilent(i) ==
    /\ calls[i].pc = "waiting"
    /\ calls' = [calls EXCEPT ![i].pc = "silent"]
    /\ UNCHANGED <<GEMINI_API_KEY, proc, questions, diagnoses, last, walk>>

\* requests.post of call i comes to outcome o and symptom_check runs on,
\* lines 101-155; posts counts the requests.post calls of the invocation
SymptomReply(i, o) ==
    /\ calls[i].pc = "waiting"
    /\ IF Retries(o)
       THEN /\ calls' = [calls EXCEPT ![i].posts = @ + 1]
            /\ UNCHANGED last
       ELSE /\ LET r == symptom_check_after_call(o)
               IN  last' = [op |-> "symptom_check", current_q_id |-> None,
                            answer |-> None, symptoms |-> calls[i].symptoms,
                            outcome |-> o, posts |-> calls[i].posts,
                            next_q_id |-> r.next_q_id, resp |-> r.resp]
            /\ calls' = [calls EXCEPT ![i] = FreeSlot]
    /\ UNCHANGED <<GEMINI_API_KEY, proc, questions, diagnoses, walk>>

Next ==
    \/ Startup
    \/ \E c \in NodeInputs, a \in AnswerInputs : Answer(c, a)
    \/ WalkStart
    \/ \E a \in {"yes", "no"} : WalkStep(a)
    \/ \E s \in SymptomInputs : SymptomReject(s)
    \/ \E i \in Slots, s \in SymptomInputs : SymptomCall(i, s)
    \/ \E i \in Slots : ExternalSilent(i)
    \/ \E i \in Slots, o \in Outcomes : SymptomReply(i, o)

Spec == Init /\ [][Next]_vars

\* the server takes every step it can take, and the service answers every
\* call it has not gone silent on
FairSpec ==
    /\ Spec
    /\ WF_vars(Startup)
    /\ \A i \in Slots : WF_vars(\E o \in Outcomes : SymptomReply(i, o))

(***************************************************************************)
(* Properties of the tree and of /api/answer.                              *)
(***************************************************************************)
TreeKeys == DOMAIN questions \cup DOMAIN diagnoses

IsAnswer == last.op = "answer"
ValidAdvance ==
    /\ IsAnswer
    /\ last.current_q_id \in QuestionIds
    /\ last.answer \in {"yes", "no"}

RootQuestionText == "Are they conscious and responsive?"

\* C1: in the running service every question id of the fixed tree is a key
\* of questions, both its yes and its no transition name a key of questions
\* or of diagnoses, and the id a valid Advance moves to is such a key.
C1_NoDanglingTransition ==
    proc = "running" =>
        /\ \A n \in QuestionIds : \A a \in {"yes", "no"} :
              /\ n \in DOMAIN questions
              /\ questions[n][a] \in TreeKeys
        /\ ValidAdvance => last.next_q_id \in TreeKeys

\* a valid Advance took the last transition of the longest chain
C1_Witness ==
    /\ ValidAdvance
    /\ last.current_q_id = "q6_a"
    /\ last.answer = "no"
    /\ last.next_q_id = "diag_general_ok"

\* C2: a valid Advance succeeds; when its target is a question key the
\* response is that id with that node's question text, when it is a
\* diagnosis key the response is that leaf's text; start/no gives q1_b and
\* q1_b/yes gives the unconscious-with-pulse recommendation.
C2_AdvanceReturnsTarget ==
    ValidAdvance =>
        LET target == questions[last.current_q_id][last.answer]
        IN  /\ last.resp.http = 200
            /\ last.resp.status \in {"question", "diagnosis"}
            /\ target \in DOMAIN questions =>
                  last.resp = QuestionResp(target, questions[target].question)
            /\ target \in DOMAIN diagnoses =>
                  last.resp = DiagnosisResp(diagnoses[target])
            /\ (last.current_q_id = "start" /\ last.answer = "no") =>
                  /\ last.resp.status = "question"
                  /\ last.resp.next_q_id = "q1_b"
                  /\ last.resp.question = "Do they have a pulse?"
            /\ (last.current_q_id = "q1_b" /\ last.answer = "yes") =>
                  /\ last.resp.status = "diagnosis"
                  /\ last.resp.diagnosis = "Possible Unconscious but Breathing. Place them in the recovery position and monitor their breathing. You should have already called for emergency services."

\* the client went start -no-> q1_b -yes-> leaf
C2_Witness ==
    /\ ValidAdvance
    /\ walk.path = <<"start", "q1_b", "diag_unconscious_breathing">>
    /\ walk.answers = <<"no", "yes">>
    /\ last.current_q_id = "q1_b"
    /\ last.resp.status = "diagnosis"

\* the Advance requests of the client since it was given its first id
Hops == Len(walk.path) - 1

\* a traversal from the root never fails, is at a leaf after at most k hops,
\* and the two named answer sequences end at a leaf
TraversalWithin(k) ==
    (Len(walk.path) > 0 /\ walk.path[1] = ROOT_ID) =>
        /\ walk.status \in {"question", "diagnosis"}
        /\ walk.status = "question" =>
              /\ Hops < k
              /\ walk.path[Len(walk.path)] \in DOMAIN questions
        /\ walk.status = "diagnosis" =>
              /\ Hops <= k
              /\ walk.path[Len(walk.path)] \in DOMAIN diagnoses
        /\ walk.answers \in {<<"no", "yes">>, <<"yes", "yes", "yes">>} =>
              walk.status = "diagnosis"

\* C3 as stated: every traversal from start that feeds the returned id back
\* is at a DiagnosisLeaf after at most 6 hops.
C3_WithinSixHops == TraversalWithin(6)

\* C3 amended: every traversal from start that feeds the returned id back
\* is at a DiagnosisLeaf after at most 7 hops.
C3_WithinSevenHops == TraversalWithin(7)

\* the client answered yes, yes, no, no, no, no and any seventh answer
C3_Witness ==
    /\ walk.status = "diagnosis"
    /\ Hops = 7
    /\ walk.path[1] = ROOT_ID
    /\ walk.path[7] = "q6_a"

\* C8: Advance on a question id with an answer that is neither yes, no nor
\* the sentinel fails (an exception leaves the handler, HTTP 500) and
\* returns neither a question nor a diagnosis.
C8_InvalidAnswerFails ==
    (/\ IsAnswer
     /\ last.current_q_id \in QuestionIds
     /\ last.answer \notin {"yes", "no", "initial"}) =>
        /\ last.resp.http = 500
        /\ last.resp.exc = "KeyError"
        /\ last.resp.status \notin {"question", "diagnosis"}
        /\ last.resp.next_q_id = None
        /\ last.resp.diagnosis = None

\* the answer "question", a key of every node record, was sent
C8_Witness ==
    /\ IsAnswer
    /\ last.current_q_id = "q1_b"
    /\ last.answer = "question"
    /\ last.resp.http = 500

RootQuestion == QuestionResp("start", RootQuestionText)

\* C9 as stated: whenever the current node id is the sentinel "initial",
\* the response is the root question, whatever the answer.
C9_SentinelAsNodeId ==
    (IsAnswer /\ last.current_q_id = "initial") => last.resp = RootQuestion

\* C9 amended: whenever the answer is the sentinel "initial", the response
\* is the root question, whatever the current node id; Advance("initial",
\* "initial") returns the root question.
C9_SentinelAsAnswer ==
    (IsAnswer /\ last.answer = "initial") => last.resp = RootQuestion

\* the sentinel came with a real node id
C9_Witness ==
    /\ IsAnswer
    /\ last.answer = "initial"
    /\ last.current_q_id = "q3_a"
    /\ last.resp.next_q_id = "start"

\* the targets of a node
Successors(n) ==
    IF n \in DOMAIN questions
    THEN {questions[n].yes, questions[n].no}
    ELSE {}

\* the nodes one or more transitions away from the nodes of S
RECURSIVE ReachFrom(_, _)
ReachFrom(S, seen) ==
    LET new == (UNION {Successors(n) : n \in S}) \ seen
    IN  IF new = {} THEN seen ELSE ReachFrom(new, seen \cup new)

NoRevisit(path) ==
    \A i, j \in 1..Len(path) : i # j => path[i] # path[j]

\* C10: in the running service every key of questions and of diagnoses is
\* start or reachable from start, no node is reachable from itself, and a
\* client following the transitions is never given an id twice.
C10_AcyclicNoIsland ==
    proc = "running" =>
        /\ TreeKeys \subseteq ({ROOT_ID} \cup ReachFrom({ROOT_ID}, {}))
        /\ \A n \in TreeKeys : n \notin ReachFrom({n}, {})
        /\ NoRevisit(walk.path)

\* the client is at the leaf that ends the longest chain
C10_Witness ==
    /\ proc = "running"
    /\ Len(walk.path) = 8
    /\ walk.path[8] = "diag_general_ok"

(***************************************************************************)
(* Properties of /api/symptom_check.                                       *)
(***************************************************************************)
IsClassified == last.op = "symptom_check" /\ last.outcome.net # None

\* the service answered 200 with a well-formed body
CallSucceeded ==
    /\ IsClassified
    /\ last.outcome.net = "ok"
    /\ last.outcome.status = 200
    /\ last.outcome.shape = "good"

\* no connection, a non-success status, or a body that is not the expected
\* JSON
CallFailed ==
    /\ IsClassified
    /\ \/ last.outcome.net = "error"
       \/ last.outcome.status \in ErrorStatuses
       \/ last.outcome.shape \in BadShapes

\* C4: every symptom_check request that entered requests.post leaves it
\* again: the request returns, also when the service never answers.
C4_EveryCallReturns ==
    \A i \in Slots : (calls[i].pc # "free") ~> (calls[i].pc = "free")

\* C5: whenever the external call failed, classification came to ROOT_ID,
\* no exception left the handler, and the response is the root question.
C5_FailureFallsBackToRoot ==
    CallFailed =>
        /\ last.next_q_id = ROOT_ID
        /\ last.resp.exc = None
        /\ last.resp.http = 200
        /\ last.resp = RootQuestion

\* a 200 response whose part has no text field was absorbed
C5_Witness ==
    /\ CallFailed
    /\ last.outcome.status = 200
    /\ last.outcome.shape = "no_text"
    /\ last.resp.status = "question"

\* the entry node of each label
ExpectedEntry ==
    ("Cardiac Arrest" :> "q1_a") @@
    ("Breathing Emergency" :> "q1_b") @@
    ("Severe Bleeding" :> "q2_a") @@
    ("Heart Attack" :> "q3_a") @@
    ("Stroke" :> "q4_a") @@
    ("Seizure" :> "q5_a") @@
    ("Allergic Reaction" :> "q6_a")

\* C6: whenever the call succeeded with a label surrounded by whitespace
\* only, classification came to that label's entry node, which is not
\* ROOT_ID, and the response is that node's question; every label of the
\* category list sent in the prompt is a label with an entry node.
C6_LabelMapsToEntry ==
    /\ DOMAIN diagnosis_categories = DOMAIN ExpectedEntry
    /\ CallSucceeded =>
          \A c \in DOMAIN diagnosis_categories : \A p \in Pads :
              last.outcome.text = LeftPad(p[1]) \o c \o RightPad(p[2]) =>
                  /\ last.next_q_id = ExpectedEntry[c]
                  /\ last.next_q_id # ROOT_ID
                  /\ last.resp = QuestionResp(ExpectedEntry[c],
                                              questions[ExpectedEntry[c]].question)

\* the service answered "Heart Attack" followed by a newline
C6_Witness ==
    /\ CallSucceeded
    /\ last.outcome.text = "Heart Attack\n"
    /\ last.next_q_id = "q3_a"

\* C7: whenever the call succeeded and the trimmed text is no label,
\* classification came to ROOT_ID and the response is the root question.
C7_UnmatchedFallsBackToRoot ==
    (CallSucceeded /\ strip(last.outcome.text) \notin DOMAIN ExpectedEntry) =>
        /\ last.next_q_id = ROOT_ID
        /\ last.resp = RootQuestion

\* the service answered a label in lower case
C7_Witness ==
    /\ CallSucceeded
    /\ strip(last.outcome.text) = "heart attack"
    /\ last.next_q_id = ROOT_ID

(***************************************************************************)
(* Rejected requests, startup and the shape of the tree.                   *)
(***************************************************************************)
\* C11: Advance with yes or no on a current node id that is no question key
\* (a diagnosis id, an unknown id, a missing id) fails (an exception leaves
\* the handler, HTTP 500), returns neither a question nor a diagnosis, and
\* the service is still running on the tree it was built with.
C11_UnknownNodeRejected ==
    (/\ IsAnswer
     /\ last.current_q_id \notin QuestionIds
     /\ last.answer \in {"yes", "no"}) =>
        /\ last.resp.http = 500
        /\ last.resp.exc = "KeyError"
        /\ last.resp.status \notin {"question", "diagnosis"}
        /\ last.resp.question = None
        /\ last.resp.diagnosis = None
        /\ proc = "running"
        /\ DOMAIN questions = QuestionIds
        /\ \A n \in QuestionIds : \A a \in {"yes", "no"} :
              questions[n][a] \in TreeKeys

\* a diagnosis id was sent as the current node
C11_Witness ==
    /\ IsAnswer
    /\ last.current_q_id = "diag_bleeding"
    /\ last.answer = "yes"
    /\ last.resp.http = 500

\* C12: in the running service every id the chain of
\* call_ai_for_symptom_check can return, and "start", is a key of questions;
\* every classified symptom_check answers with such a key and with the
\* question text of that same node.
C12_EntryIsQuestionNode ==
    proc = "running" =>
        /\ ROOT_ID \in DOMAIN questions
        /\ \A k \in 1..Len(EntryChain) : EntryChain[k][2] \in DOMAIN questions
        /\ IsClassified =>
              /\ last.next_q_id \in DOMAIN questions
              /\ last.resp.status = "question"
              /\ last.resp.next_q_id = last.next_q_id
              /\ last.resp.question = questions[last.next_q_id].question

\* the last branch of the chain was taken
C12_Witness ==
    /\ IsClassified
    /\ last.outcome.text = " Allergic Reaction"
    /\ last.resp.next_q_id = "q6_a"
    /\ last.resp.question = "Do they have a known history of severe allergies or are they having trouble breathing with swelling?"

\* no request was ever received
NothingHandled ==
    /\ last = NoRequest
    /\ walk = NoWalk
    /\ \A i \in Slots : calls[i].pc = "free"

\* C13: when GEMINI_API_KEY is not set or empty, the import never leaves
\* the service running: it is still to run or has failed, the tree is not
\* built, and no symptom_check or answer request is ever handled.
C13_NoKeyNoService ==
    GEMINI_API_KEY \in {None, ""} =>
        /\ proc \in {"boot", "failed"}
        /\ questions = <<>>
        /\ diagnoses = <<>>
        /\ NothingHandled

\* the import failed on an empty key
C13_Witness ==
    /\ GEMINI_API_KEY = ""
    /\ proc = "failed"

\* C14: in the running service every diagnosis id reachable from start is
\* a key of diagnoses with a non-empty text, and every response with status
\* "diagnosis" carries a non-empty text.
C14_DiagnosisTextNonEmpty ==
    proc = "running" =>
        /\ \A k \in ReachFrom({ROOT_ID}, {}) :
              (k \in DOMAIN diagnoses \/ startswith(k, "diag_")) =>
                  /\ k \in DOMAIN diagnoses
                  /\ diagnoses[k] # None
                  /\ Len(diagnoses[k]) > 0
        /\ last.resp.status = "diagnosis" =>
              /\ last.resp.diagnosis # None
              /\ Len(last.resp.diagnosis) > 0

\* an Advance returned the text of the leaf that ends the longest chain
C14_Witness ==
    /\ IsAnswer
    /\ last.resp.status = "diagnosis"
    /\ last.next_q_id = "diag_general_ok"
    /\ last.resp.diagnosis = diagnoses["diag_general_ok"]

(***************************************************************************)
(* Calls to the external service.                                          *)
(***************************************************************************)
\* C15: a symptom_check whose symptoms are missing or empty is answered
\* with the error status without any requests.post, and no call in flight
\* belongs to such a request.
C15_EmptySymptomsNeverCalled ==
    /\ (last.op = "symptom_check" /\ last.symptoms \in {None, ""}) =>
          /\ last.resp = ErrorResp("No symptoms provided.")
          /\ last.posts = 0
          /\ last.outcome = NoOutcome
          /\ last.next_q_id = None
    /\ \A i \in Slots :
          calls[i].pc # "free" => calls[i].symptoms \notin {None, ""}

\* an empty symptoms string was rejected
C15_Witness ==
    /\ last.op = "symptom_check"
    /\ last.symptoms = ""
    /\ last.resp.status = "error"
    /\ last.posts = 0

\* C16: every symptom_check that reached the classifier has issued exactly
\* one requests.post, while it waits and when it has returned, whatever the
\* call came to.
C16_OnePostPerInvocation ==
    /\ \A i \in Slots : calls[i].pc # "free" => calls[i].posts = 1
    /\ IsClassified => last.posts = 1

\* a call that could not connect returned after its one post
C16_Witness ==
    /\ IsClassified
    /\ last.outcome = ConnectionFailed
    /\ last.posts = 1
    /\ \A i \in Slots : calls[i].pc = "free"

(***************************************************************************)
(* Classification of ids, statelessness, the reset, entry nodes.           *)
(***************************************************************************)
\* C17: in the running service no id is a key of both dicts, an id of the
\* tree starts with "diag_" exactly when it is a key of diagnoses, and an
\* Advance that moved to an id of the tree answered "diagnosis" exactly for
\* a key of diagnoses and "question" exactly for a key of questions.
C17_PrefixClassifiesIds ==
    proc = "running" =>
        /\ DOMAIN questions \cap DOMAIN diagnoses = {}
        /\ \A k \in TreeKeys \cup ReachFrom({ROOT_ID}, {}) :
              /\ startswith(k, "diag_") <=> k \in DOMAIN diagnoses
              /\ ~startswith(k, "diag_") <=> k \in DOMAIN questions
        /\ (IsAnswer /\ last.next_q_id \in TreeKeys) =>
              /\ last.resp.http = 200
              /\ last.resp.status = "diagnosis" <=>
                     last.next_q_id \in DOMAIN diagnoses
              /\ last.resp.status = "question" <=>
                     last.next_q_id \in DOMAIN questions

\* an Advance moved to a leaf and looked it up among the diagnoses
C17_Witness ==
    /\ IsAnswer
    /\ last.current_q_id = "q5_a"
    /\ last.next_q_id = "diag_seizure"
    /\ last.resp.status = "diagnosis"

\* the response to an Advance as a function of its two fields alone
AdvanceOf(current_q_id, ans) ==
    LET target ==
            IF ans = "initial" THEN ROOT_ID
            ELSE IF current_q_id \in QuestionIds /\ ans \in {"yes", "no"}
                 THEN QuestionsLiteral[current_q_id][ans]
            ELSE None
    IN  IF target = None THEN ServerError("KeyError")
        ELSE IF target \in DOMAIN DiagnosesLiteral
             THEN DiagnosisResp(DiagnosesLiteral[target])
        ELSE QuestionResp(target, QuestionsLiteral[target].question)

\* the response to a symptom_check as a function of what its own call came to
StartOf(o) ==
    LET entry ==
            IF /\ o.net = "ok"
               /\ o.status = 200
               /\ o.shape = "good"
               /\ strip(o.text) \in DOMAIN ExpectedEntry
            THEN ExpectedEntry[strip(o.text)]
            ELSE ROOT_ID
    IN  QuestionResp(entry, QuestionsLiteral[entry].question)

\* C18: in the running service, whatever requests were handled before and
\* whatever calls are in flight, the two dicts are as they were built, the
\* response to an Advance is a function of its current node id and answer
\* alone, and the response to a classified symptom_check is a function of
\* the outcome of its own call alone.
C18_StatelessHandlers ==
    proc = "running" =>
        /\ questions = QuestionsLiteral
        /\ diagnoses = DiagnosesLiteral
        /\ IsAnswer => last.resp = AdvanceOf(last.current_q_id, last.answer)
        /\ IsClassified => last.resp = StartOf(last.outcome)

\* another caller's Advance was answered while a symptom_check waits for
\* the service and the guided-quiz client is in the middle of its quiz
C18_Witness ==
    /\ \E i \in Slots : calls[i].pc = "waiting"
    /\ walk.status = "question"
    /\ walk.path = <<"start", "q1_b">>
    /\ IsAnswer
    /\ last.current_q_id = "q3_a"
    /\ last.answer = "no"
    /\ last.resp.next_q_id = "q4_a"

\* C19: an Advance whose answer is "initial" moves to "start" and answers
\* the root question without an exception for every current node id, also
\* one that is no key of questions (a diagnosis id, an unknown id, a missing
\* id); the current node id "initial" with any other answer resets nothing.
C19_ResetByAnswerAlone ==
    /\ (IsAnswer /\ last.answer = "initial") =>
          /\ last.next_q_id = "start"
          /\ last.resp.exc = None
          /\ last.resp.http = 200
          /\ last.resp.status = "question"
          /\ last.resp.next_q_id = "start"
          /\ last.resp.question = RootQuestionText
    /\ (IsAnswer /\ last.current_q_id = "initial" /\ last.answer # "initial") =>
          /\ last.next_q_id = None
          /\ last.resp.status # "question"
          /\ last.resp.exc = "KeyError"

\* the sentinel came without any current node id
C19_Witness ==
    /\ IsAnswer
    /\ last.answer = "initial"
    /\ last.current_q_id = None
    /\ last.resp.next_q_id = "start"

\* the answer that leads from a label's entry node to the label's leaf
Via(label) == IF label = "Cardiac Arrest" THEN "no" ELSE "yes"

\* C20: in the running service, for every label of diagnosis_categories the
\* leaf bound to the label is the target of one transition of the entry
\* node returned for the label (its yes transition, for Cardiac Arrest the
\* no transition of q1_a), and an Advance with that answer on that entry
\* node returns this leaf's text.
C20_LeafOneHopFromEntry ==
    proc = "running" =>
        \A label \in DOMAIN diagnosis_categories :
            LET entry == MatchEntry(label)
                leaf == diagnosis_categories[label]
            IN  /\ entry \in DOMAIN questions
                /\ entry # ROOT_ID
                /\ leaf \in DOMAIN diagnoses
                /\ questions[entry][Via(label)] = leaf
                /\ (/\ IsAnswer
                    /\ last.current_q_id = entry
                    /\ last.answer = Via(label)) =>
                       /\ last.next_q_id = leaf
                       /\ last.resp = DiagnosisResp(diagnoses[leaf])

\* the no answer on the entry node of Cardiac Arrest reached its leaf
C20_Witness ==
    /\ IsAnswer
    /\ last.current_q_id = "q1_a"
    /\ last.answer = "no"
    /\ last.next_q_id = "diag_unconscious_not_breathing"
    /\ last.resp.status = "diagnosis"

====
